---- MODULE Spec2Model ----
(***************************************************************************)
(* Model of the SonosSpotifyPlaylist platform (src/src/index.js): the      *)
(* playlist switches, the onSet handler of each switch and                 *)
(* handleSwitchSet, which groups the zones and starts or pauses playback   *)
(* through the node-sonos-http-api REST calls.                             *)
(*                                                                         *)
(* A JavaScript string is modelled as a sequence of symbols.  A symbol is  *)
(* the separator ",", a blank " ", or an indivisible word such as          *)
(* "Bedroom"; split, trim and encodeURIComponent work on these sequences.  *)
(* An await is a point where the handler is suspended: every action below  *)
(* is one run-to-completion segment of the event loop.                     *)
(***************************************************************************)
EXTENDS Integers, Sequences, FiniteSets, TLC

VARIABLES
    setupState,      \* promise of setupSonosHttpApi().then(checkFirewall)
    listening,       \* a 'didFinishLaunching' listener is registered
    launched,        \* the host has emitted 'didFinishLaunching'
    accessories,     \* this.accessories: indexes into config.playlists
    isOn,            \* value of Characteristic.On of each switch
    activePlaylist,  \* this.activePlaylist
    reqs,            \* the set-requests being handled, in delivery order
    last,            \* the set-request that completed last, kept until the next
                     \* call of a request is answered or a set-request is delivered
                     \* while another one is being handled
    session          \* the REST server's side, observed in SpecShared only: what each
                     \* coordinator room was last told to play, and the two
                     \* set-requests that completed last

vars ==
    <<setupState, listening, launched, accessories, isOn, activePlaylist, reqs, last, session>>

----------------------------------------------------------------------------
(* Bounds *)

\* number of set-requests that are being handled at the same time
MaxInFlight == 2
\* number of room groups in a reply of GET /zones
MaxGroups == 2

----------------------------------------------------------------------------
(* Strings *)

Comma == ","
Blank == " "

Bedroom == <<"Bedroom">>
Kitchen == <<"Kitchen">>
Office == <<"Office">>
ALL == <<"ALL">>

\* this.activePlaylist = null
null == "null"

\* String.prototype.split(',')
RECURSIVE split(_)
split(s) ==
    IF \A p \in 1..Len(s) : s[p] # Comma
    THEN <<s>>
    ELSE LET p == CHOOSE q \in 1..Len(s) :
                      s[q] = Comma /\ \A q2 \in 1..(q - 1) : s[q2] # Comma
         IN <<SubSeq(s, 1, p - 1)>> \o split(SubSeq(s, p + 1, Len(s)))

\* String.prototype.trim()
RECURSIVE trim(_)
trim(s) ==
    IF s = <<>> THEN s
    ELSE IF Head(s) = Blank THEN trim(Tail(s))
    ELSE IF s[Len(s)] = Blank THEN trim(SubSeq(s, 1, Len(s) - 1))
    ELSE s

\* encodeURIComponent: words are unreserved, separators and blanks are escaped
RECURSIVE encodeURIComponent(_)
encodeURIComponent(s) ==
    IF s = <<>> THEN <<>>
    ELSE (IF Head(s) = Blank THEN <<"%20">>
          ELSE IF Head(s) = Comma THEN <<"%2C">>
          ELSE <<Head(s)>>) \o encodeURIComponent(Tail(s))

----------------------------------------------------------------------------
(* Configuration: config.playlists.  A property that is absent from the    *)
(* JSON object is a field absent from the record.                          *)

playlists ==
    << [name |-> "Morning",
        SpotifyPlaylistID |-> <<"spotify:playlist:1">>,
        Zones |-> Bedroom \o <<Comma>> \o Kitchen \o <<Comma, Blank>> \o Office
                  \o <<Comma>> \o Kitchen,
        shuffle |-> <<"on">>, repeat |-> <<"all">>],
       [name |-> "Party",
        SpotifyPlaylistID |-> <<"spotify:playlist:2">>,
        Zones |-> ALL,
        shuffle |-> <<"on">>, repeat |-> <<"one">>],
       [name |-> "Evening",
        SpotifyPlaylistID |-> <<"spotify:playlist:3">>],
       [name |-> "Garden",
        SpotifyPlaylistID |-> <<"spotify:playlist:4">>,
        Zones |-> <<Blank, Comma>> \o Kitchen,
        repeat |-> <<"all">>],
       [name |-> "Broken"] >>

Has(cfg, f) == f \in DOMAIN cfg

\* JavaScript truthiness of a string property: defined and not empty
Truthy(cfg, f) == Has(cfg, f) /\ cfg[f] # <<>>

\* destructuring defaults: shuffle = 'off', repeat = 'off'
shuffleOf(cfg) == IF Has(cfg, "shuffle") THEN cfg.shuffle ELSE <<"off">>
repeatOf(cfg) == IF Has(cfg, "repeat") THEN cfg.repeat ELSE <<"off">>

\* const coordinator = Zones && Zones.split(',')[0] ? Zones.split(',')[0].trim() : 'Bedroom'
coordinator(cfg) ==
    IF Truthy(cfg, "Zones") /\ split(cfg.Zones)[1] # <<>>
    THEN trim(split(cfg.Zones)[1])
    ELSE Bedroom

\* if (Zones && Zones !== 'ALL')
explicitZones(cfg) == Truthy(cfg, "Zones") /\ cfg.Zones # ALL

\* variant: a room that occurs twice is joined once
RECURSIVE dedup(_)
dedup(l) ==
    IF l = <<>> THEN <<>>
    ELSE LET init == dedup(SubSeq(l, 1, Len(l) - 1))
         IN IF \E n \in DOMAIN init : init[n] = l[Len(l)] THEN init ELSE Append(init, l[Len(l)])
explicitMembersDedup(cfg) ==
    LET parts == split(cfg.Zones)
    IN dedup(Tail([n \in 1..Len(parts) |-> trim(parts[n])]))

\* Zones.split(',').map(zone => zone.trim()).slice(1)
explicitMembers(cfg) ==
    LET parts == split(cfg.Zones)
    IN Tail([n \in 1..Len(parts) |-> trim(parts[n])])

\* the zones of the GET /zones reply that are joined: zone !== coordinator
allMembers(zones, coord) == SelectSeq(zones, LAMBDA z : z # coord)

----------------------------------------------------------------------------
(* The REST calls *)

apiUrl == <<"http://127.0.0.1:5005">>

zonesUrl == apiUrl \o <<"/zones">>
joinUrl(zone, coord) ==
    apiUrl \o <<"/">> \o encodeURIComponent(zone) \o <<"/join/">> \o encodeURIComponent(coord)
\* a property that is undefined is interpolated as the text "undefined"
playlistIdOf(cfg) ==
    IF Has(cfg, "SpotifyPlaylistID") THEN cfg.SpotifyPlaylistID ELSE <<"undefined">>
sourceUrl(coord, id) ==
    apiUrl \o <<"/">> \o encodeURIComponent(coord) \o <<"/spotify/now/">> \o id
shuffleUrl(coord, mode) ==
    apiUrl \o <<"/">> \o encodeURIComponent(coord) \o <<"/shuffle/">> \o mode
repeatUrl(coord, mode) ==
    apiUrl \o <<"/">> \o encodeURIComponent(coord) \o <<"/repeat/">> \o mode
\* variant: the pause goes to the fallback room
pauseUrlFallback(coord) ==
    apiUrl \o <<"/">> \o encodeURIComponent(Bedroom) \o <<"/pause">>
pauseUrl(coord) ==
    apiUrl \o <<"/">> \o encodeURIComponent(coord) \o <<"/pause">>

\* entries of a request's trace
\* axios.get(url)
Get(url) == [op |-> "get", sw |-> 0, url |-> url]
\* getCharacteristic(Characteristic.On).updateValue(false) on the service of switch j
UpdateValue(j) == [op |-> "updateValue", sw |-> j, url |-> <<>>]

\* replies of GET /zones: the coordinator room of each group, no room twice
Rooms == {Bedroom, Office}
RECURSIVE RoomLists(_)
RoomLists(n) ==
    IF n = 0 THEN {<<>>}
    ELSE RoomLists(n - 1) \cup
         {Append(l, r) : l \in {m \in RoomLists(n - 1) : Len(m) = n - 1}, r \in Rooms}
ZoneReplies == {l \in RoomLists(MaxGroups) : \A a, b \in 1..Len(l) : a # b => l[a] # l[b]}

\* the coordinator rooms that the calls are addressed to, and a room that has been
\* told nothing yet
Coordinators == {coordinator(playlists[i]) : i \in DOMAIN playlists}
idle == [source |-> <<>>, shuffle |-> <<>>, repeat |-> <<>>]

----------------------------------------------------------------------------
(* Initial state: the platform object after its constructor has run *)

Init ==
    /\ setupState = "pending"
    /\ listening = FALSE
    /\ launched = FALSE
    /\ accessories = <<>>
    /\ isOn = [i \in DOMAIN playlists |-> FALSE]
    /\ activePlaylist = null
    /\ reqs = <<>>
    /\ last = <<>>
    /\ session = [player |-> [c \in Coordinators |-> idle], finished |-> <<>>]

----------------------------------------------------------------------------
(* Start-up: constructor promise chain and setupAccessories *)

\* setupSonosHttpApi() and then checkFirewall() resolve: the listener is registered
setupResolved ==
    /\ setupState = "pending"
    /\ setupState' = "resolved"
    /\ listening' = TRUE
    /\ UNCHANGED <<launched, accessories, isOn, activePlaylist, reqs, last, session>>

\* setupSonosHttpApi() rejects (an exec or a file operation outside a try block throws)
setupRejected ==
    /\ setupState = "pending"
    /\ setupState' = "rejected"
    /\ UNCHANGED <<listening, launched, accessories, isOn, activePlaylist, reqs, last, session>>

\* playlists that get an accessory: name and SpotifyPlaylistID are both set
validPlaylist(cfg) == Has(cfg, "name") /\ cfg.name # "" /\ Truthy(cfg, "SpotifyPlaylistID")

setupAccessories ==
    SelectSeq([i \in 1..Len(playlists) |-> i], LAMBDA i : validPlaylist(playlists[i]))

\* the host emits 'didFinishLaunching' (once); a registered listener runs setupAccessories
didFinishLaunching ==
    /\ ~launched
    /\ launched' = TRUE
    /\ accessories' = IF listening THEN setupAccessories ELSE accessories
    /\ UNCHANGED <<setupState, listening, isOn, activePlaylist, reqs, last, session>>

registered == {accessories[n] : n \in 1..Len(accessories)}

----------------------------------------------------------------------------
(* handleSwitchSet *)

InFlight(r) == r.pc # "done"

\* variant: the loop does not skip the service of the target switch
updateOthersAndTarget(accs, i) == [n \in 1..Len(accs) |-> UpdateValue(accs[n])]

\* variant: the loop notifies nobody
updateOthersNone(accs, i) == <<>>

\* the updateValue(false) calls of the loop over this.accessories, in order
updateOthers(accs, i) ==
    LET others == SelectSeq(accs, LAMBDA j : j # i)
    IN [n \in 1..Len(others) |-> UpdateValue(others[n])]

\* variant: the loop leaves the other switches as they are
othersOffNone(accs, i, on) == on

\* the characteristic values after that loop
othersOff(accs, i, on) ==
    [j \in DOMAIN on |->
        IF j # i /\ \E n \in 1..Len(accs) : accs[n] = j THEN FALSE ELSE on[j]]

\* this.activePlaylist after the synchronous part of handleSwitchSet
activeAtStart(cfg, value, active) == IF value THEN cfg.name ELSE active

\* variant: the joins that remain are issued together, without awaiting each one
joinOrSourceTogether(r, members, k) ==
    IF k <= Len(members)
    THEN [r EXCEPT !.pc = "join", !.members = members, !.k = Len(members),
                   !.trace = @ \o [p \in 1..(Len(members) - k + 1) |->
                                      Get(joinUrl(members[k + p - 1], coordinator(playlists[r.cfg])))]]
    ELSE [r EXCEPT !.pc = "source", !.members = members, !.k = k,
                   !.trace = Append(@, Get(sourceUrl(coordinator(playlists[r.cfg]),
                                                     playlistIdOf(playlists[r.cfg]))))]

\* issue the join of members[k], or the source command when all joins are done
joinOrSource(r, members, k) ==
    IF k <= Len(members)
    THEN [r EXCEPT !.pc = "join", !.members = members, !.k = k,
                   !.trace = Append(@, Get(joinUrl(members[k], coordinator(playlists[r.cfg]))))]
    ELSE [r EXCEPT !.pc = "source", !.members = members, !.k = k,
                   !.trace = Append(@, Get(sourceUrl(coordinator(playlists[r.cfg]),
                                                     playlistIdOf(playlists[r.cfg]))))]

\* variant: the deactivation branch also runs the updateValue(false) loop
beginBothNotify(i, value, entry, accs) ==
    LET cfg == playlists[i]
        r1 == [cfg |-> i, value |-> value, entry |-> entry, pc |-> "start",
               members |-> <<>>, k |-> 0, trace |-> updateOthers(accs, i), failedAt |-> 0,
               hung |-> FALSE, hs |-> "pending", set |-> "pending"]
    IN IF value
       THEN IF explicitZones(cfg)
            THEN joinOrSource(r1, explicitMembers(cfg), 1)
            ELSE [r1 EXCEPT !.pc = "zones", !.trace = Append(@, Get(zonesUrl))]
       ELSE [r1 EXCEPT !.pc = "pause", !.trace = Append(@, Get(pauseUrl(coordinator(cfg))))]

\* handleSwitchSet from its entry to its first await
begin(i, value, entry, accs) ==
    LET cfg == playlists[i]
        r0 == [cfg |-> i, value |-> value, entry |-> entry, pc |-> "start",
               members |-> <<>>, k |-> 0, trace |-> <<>>, failedAt |-> 0,
               hung |-> FALSE, hs |-> "pending", set |-> "pending"]
    IN IF value
       THEN LET r1 == [r0 EXCEPT !.trace = updateOthers(accs, i)]
            IN IF explicitZones(cfg)
               THEN joinOrSource(r1, explicitMembers(cfg), 1)
               ELSE [r1 EXCEPT !.pc = "zones", !.trace = Append(@, Get(zonesUrl))]
       ELSE [r0 EXCEPT !.pc = "pause", !.trace = Append(@, Get(pauseUrl(coordinator(cfg))))]

\* the continuation after the awaited call of r has succeeded (data: reply of /zones)
resume(r, data) ==
    LET cfg == playlists[r.cfg]
    IN CASE r.pc = "zones" -> joinOrSource(r, allMembers(data, coordinator(cfg)), 1)
         [] r.pc = "join" -> joinOrSource(r, r.members, r.k + 1)
         [] r.pc = "source" ->
                [r EXCEPT !.pc = "shuffle",
                          !.trace = Append(@, Get(shuffleUrl(coordinator(cfg), shuffleOf(cfg))))]
         [] r.pc = "shuffle" ->
                [r EXCEPT !.pc = "repeat",
                          !.trace = Append(@, Get(repeatUrl(coordinator(cfg), repeatOf(cfg))))]
         [] OTHER -> [r EXCEPT !.pc = "done", !.hs = "resolved"]

\* the awaited call of r, the latest of its trace, is answered with an error
failure(r) == [r EXCEPT !.failedAt = Len(r.trace)]

\* variant: the call that failed is issued a second time before the error is thrown
abortRetried(r) ==
    [r EXCEPT !.pc = "done", !.hs = "rejected", !.trace = Append(@, r.trace[Len(r.trace)])]

\* variant: the failure path tells the host that the target switch is off
abortCompensates(r) ==
    [r EXCEPT !.pc = "done", !.hs = "rejected", !.trace = Append(@, UpdateValue(r.cfg))]

\* variant: the error is caught inside handleSwitchSet, which returns normally
abortSwallowed(r) == [r EXCEPT !.pc = "done", !.hs = "resolved"]

\* the await throws: the error leaves handleSwitchSet, nothing after it runs
abort(r) == [r EXCEPT !.pc = "done", !.hs = "rejected"]

\* variant: the deactivation branch does not clear this.activePlaylist
activeAtEndKept(r, active) == active

\* this.activePlaylist after handleSwitchSet returned normally
activeAtEnd(r, active) == IF r.value THEN active ELSE null

\* the onSet handler: its catch block logs the error and does not rethrow
onSetResult(hs) == "ok"

\* what the caller of r's entry point gets back once handleSwitchSet has settled
complete(r) ==
    [r EXCEPT !.set = IF r.entry = "onSet" THEN onSetResult(r.hs)
                      ELSE IF r.hs = "rejected" THEN "error" ELSE "ok"]

\* the host stores the requested value in the characteristic when onSet resolved
committed(on, r) ==
    IF r.entry = "onSet" /\ r.set = "ok" THEN [on EXCEPT ![r.cfg] = r.value] ELSE on

\* reqs without its n-th element
without(rs, n) == SubSeq(rs, 1, n - 1) \o SubSeq(rs, n + 1, Len(rs))

----------------------------------------------------------------------------
(* Actions of the set-requests *)

\* the host delivers a set-request to the onSet handler of switch i; it delivers
\* one set-request at a time per characteristic
onSet(i, value) ==
    /\ i \in registered
    /\ Len(reqs) < MaxInFlight
    /\ \A n \in DOMAIN reqs : reqs[n].cfg # i
    /\ reqs' = Append(reqs, begin(i, value, "onSet", accessories))
    /\ isOn' = IF value THEN othersOff(accessories, i, isOn) ELSE isOn
    /\ activePlaylist' = activeAtStart(playlists[i], value, activePlaylist)
    /\ last' = IF reqs = <<>> THEN last ELSE <<>>
    /\ UNCHANGED <<setupState, listening, launched, accessories, session>>

\* the same, by a host that delivers a set-request only when none is being handled
onSetSerial(i, value) ==
    /\ reqs = <<>>
    /\ onSet(i, value)

\* handleSwitchSet is called with a playlist entry that has no accessory
handleSwitchSetDirect(i, value) ==
    /\ launched /\ listening
    /\ i \in DOMAIN playlists \ registered
    /\ reqs = <<>>
    /\ reqs' = Append(reqs, begin(i, value, "direct", accessories))
    /\ isOn' = IF value THEN othersOff(accessories, i, isOn) ELSE isOn
    /\ activePlaylist' = activeAtStart(playlists[i], value, activePlaylist)
    /\ UNCHANGED <<setupState, listening, launched, accessories, last, session>>

\* the awaited call of request n succeeds and handleSwitchSet runs to its next await
answered(n, data) ==
    /\ n \in DOMAIN reqs
    /\ ~reqs[n].hung
    /\ IF reqs[n].pc = "zones" THEN data \in ZoneReplies ELSE data = <<>>
    /\ LET r == resume(reqs[n], data)
       IN IF InFlight(r)
          THEN /\ reqs' = [reqs EXCEPT ![n] = r]
               /\ last' = <<>>
               /\ UNCHANGED <<isOn, activePlaylist>>
          ELSE /\ reqs' = without(reqs, n)
               /\ last' = <<complete(r)>>
               /\ isOn' = committed(isOn, complete(r))
               /\ activePlaylist' = activeAtEnd(r, activePlaylist)
    /\ UNCHANGED <<setupState, listening, launched, accessories>>

callSucceeds(n, data) ==
    /\ answered(n, data)
    /\ UNCHANGED session

\* what the server has been told once it has carried out the awaited call of r, one of
\* the requests rs in flight: a source, shuffle or repeat command sets that item of the
\* coordinator's session; the call that completes r is also the latest completion
applied(s, r, rs) ==
    LET cfg == playlists[r.cfg]
        c == coordinator(cfg)
        player == CASE r.pc = "source" -> [s.player EXCEPT ![c].source = playlistIdOf(cfg)]
                    [] r.pc = "shuffle" -> [s.player EXCEPT ![c].shuffle = shuffleOf(cfg)]
                    [] r.pc = "repeat" -> [s.player EXCEPT ![c].repeat = repeatOf(cfg)]
                    [] OTHER -> s.player
        done == [cfg |-> r.cfg, value |-> r.value,
                 during |-> {rs[m].cfg : m \in DOMAIN rs} \ {r.cfg}]
    IN [player |-> player,
        finished |-> IF r.pc \in {"repeat", "pause"}
                     THEN <<done>> \o SubSeq(s.finished, 1, IF s.finished = <<>> THEN 0 ELSE 1)
                     ELSE s.finished]

\* the same step as callSucceeds, with the server's side observed
serverApplies(n, data) ==
    /\ answered(n, data)
    /\ session' = applied(session, reqs[n], reqs)

\* the awaited call of request n fails: handleSwitchSet throws
callFails(n) ==
    /\ n \in DOMAIN reqs
    /\ ~reqs[n].hung
    /\ reqs' = without(reqs, n)
    /\ last' = <<complete(abort(failure(reqs[n])))>>
    /\ isOn' = committed(isOn, complete(abort(failure(reqs[n]))))
    /\ UNCHANGED <<setupState, listening, launched, accessories, activePlaylist, session>>

\* the awaited call of request n is one that the server never answers: axios.get is
\* called without a timeout option, so its promise never settles
callHangs(n) ==
    /\ n \in DOMAIN reqs
    /\ ~reqs[n].hung
    /\ reqs' = [reqs EXCEPT ![n].hung = TRUE]
    /\ last' = <<>>
    /\ UNCHANGED <<setupState, listening, launched, accessories, isOn, activePlaylist, session>>

----------------------------------------------------------------------------
(* Specifications *)

\* the host may deliver a set-request while another one is being handled
Next ==
    \/ setupResolved
    \/ setupRejected
    \/ didFinishLaunching
    \/ \E i \in DOMAIN playlists, value \in BOOLEAN : onSet(i, value)
    \/ \E n \in DOMAIN reqs, data \in ZoneReplies : callSucceeds(n, data)
    \/ \E n \in DOMAIN reqs : callFails(n)

Spec == Init /\ [][Next]_vars

\* the host delivers the set-requests one after another
NextSerial ==
    \/ setupResolved
    \/ setupRejected
    \/ didFinishLaunching
    \/ \E i \in DOMAIN playlists, value \in BOOLEAN : onSetSerial(i, value)
    \/ \E n \in DOMAIN reqs, data \in ZoneReplies : callSucceeds(n, data)
    \/ \E n \in DOMAIN reqs : callFails(n)

SpecSerial == Init /\ [][NextSerial]_vars

\* overlapping activations: as Spec, with set-requests that switch on only and a
\* server that answers every call with success and whose session is observed
NextShared ==
    \/ setupResolved
    \/ setupRejected
    \/ didFinishLaunching
    \/ \E i \in DOMAIN playlists : onSet(i, TRUE)
    \/ \E n \in DOMAIN reqs, data \in ZoneReplies : serverApplies(n, data)

SpecShared == Init /\ [][NextShared]_vars

\* as SpecSerial, with a server that may leave a call unanswered
NextHang ==
    \/ NextSerial
    \/ \E n \in DOMAIN reqs : callHangs(n)

SpecHang == Init /\ [][NextHang]_vars

\* as SpecSerial, and handleSwitchSet is also called for entries without accessory
NextDirect ==
    \/ NextSerial
    \/ \E i \in DOMAIN playlists, value \in BOOLEAN : handleSwitchSetDirect(i, value)

SpecDirect == Init /\ [][NextDirect]_vars

----------------------------------------------------------------------------
(* Properties *)

\* the requests of the current state: those in flight and the one that completed last
Requests == {reqs[n] : n \in DOMAIN reqs} \cup {last[n] : n \in DOMAIN last}

\* the URLs of the external calls of a trace, in the order of issue
RECURSIVE Gets(_)
Gets(tr) ==
    IF tr = <<>> THEN <<>>
    ELSE (IF Head(tr).op = "get" THEN <<Head(tr).url>> ELSE <<>>) \o Gets(Tail(tr))

SwitchesOn == {i \in registered : isOn[i]}

\* a set-request is delivered in this step; Delivered is its record
Delivers == Len(reqs') > Len(reqs)
Delivered == reqs'[Len(reqs')]

\* C1: when the set-requests are handled one after another, at most one registered
\* switch is on after every request whose handleSwitchSet completed successfully.
C1_AtMostOneOn ==
    (last # <<>> /\ reqs = <<>> /\ last[1].hs = "resolved") => Cardinality(SwitchesOn) <= 1

\* an activation of Party has completed with success and no request is in flight:
\* Party is the only switch that is on
C1_Witness ==
    /\ last # <<>> /\ reqs = <<>>
    /\ last[1].cfg = 2 /\ last[1].value /\ last[1].hs = "resolved"
    /\ SwitchesOn = {2}
    /\ activePlaylist = "Party"

\* C2: in the step that delivers setSwitch(B, true) and issues B's first external
\* call, every other switch A that is on is switched off, and updateValue(false) on A
\* precedes every external call in the trace of B's request.
C2_OthersOffBeforeFirstCall ==
    [][(Delivers /\ Delivered.value) =>
          /\ \E q \in DOMAIN Delivered.trace : Delivered.trace[q].op = "get"
          /\ \A a \in registered \ {Delivered.cfg} :
                isOn[a] =>
                   /\ ~isOn'[a]
                   /\ \E p \in DOMAIN Delivered.trace :
                         /\ Delivered.trace[p] = UpdateValue(a)
                         /\ \A q \in DOMAIN Delivered.trace :
                               Delivered.trace[q].op = "get" => p < q]_vars

\* Morning's activation completed with success, then Party's activation was delivered:
\* Morning is off, and updateValue(false) on Morning precedes GET /zones in the trace
C2_Witness ==
    /\ last # <<>> /\ last[1].cfg = 1 /\ last[1].value /\ last[1].set = "ok"
    /\ Len(reqs) = 1 /\ reqs[1].cfg = 2 /\ reqs[1].value
    /\ ~isOn[1]
    /\ reqs[1].trace = <<UpdateValue(1), UpdateValue(3), UpdateValue(4), Get(zonesUrl)>>

\* the zone list of an explicit Zones string
ZoneList(cfg) == LET parts == split(cfg.Zones) IN [n \in 1..Len(parts) |-> trim(parts[n])]

\* C3: a successful activation of a switch with an explicit zone list z whose
\* coordinator is z[1] has issued exactly join(z[i] -> z[1]) for i = 2..Len(z), in
\* order, one per entry, then source, shuffle and repeat on z[1].
C3_ExplicitTrace ==
    \A r \in Requests :
        LET cfg == playlists[r.cfg]
        IN (r.value /\ r.hs = "resolved" /\ explicitZones(cfg) /\ split(cfg.Zones)[1] # <<>>) =>
              LET z == ZoneList(cfg)
              IN Gets(r.trace) =
                     [n \in 1..(Len(z) - 1) |-> joinUrl(z[n + 1], z[1])]
                     \o <<sourceUrl(z[1], cfg.SpotifyPlaylistID),
                          shuffleUrl(z[1], shuffleOf(cfg)),
                          repeatUrl(z[1], repeatOf(cfg))>>

\* Morning ("Bedroom,Kitchen, Office,Kitchen") has been activated with success
C3_Witness ==
    /\ last # <<>> /\ last[1].cfg = 1 /\ last[1].value /\ last[1].hs = "resolved"
    /\ Gets(last[1].trace) =
           << <<"http://127.0.0.1:5005", "/", "Kitchen", "/join/", "Bedroom">>,
              <<"http://127.0.0.1:5005", "/", "Office", "/join/", "Bedroom">>,
              <<"http://127.0.0.1:5005", "/", "Kitchen", "/join/", "Bedroom">>,
              <<"http://127.0.0.1:5005", "/", "Bedroom", "/spotify/now/", "spotify:playlist:1">>,
              <<"http://127.0.0.1:5005", "/", "Bedroom", "/shuffle/", "on">>,
              <<"http://127.0.0.1:5005", "/", "Bedroom", "/repeat/", "all">> >>

\* C4: a successful activation of a switch without explicit zones (the "ALL"
\* sentinel, or no Zones) has queried /zones once, joined to Bedroom each returned
\* room other than Bedroom, in the returned order, and started playback on Bedroom.
C4_AllUsesFallbackRoom ==
    \A r \in Requests :
        LET cfg == playlists[r.cfg]
        IN (r.value /\ r.hs = "resolved" /\ ~explicitZones(cfg)) =>
              \E reply \in ZoneReplies :
                 LET m == SelectSeq(reply, LAMBDA z : z # Bedroom)
                 IN Gets(r.trace) =
                        <<zonesUrl>>
                        \o [n \in 1..Len(m) |-> joinUrl(m[n], Bedroom)]
                        \o <<sourceUrl(Bedroom, playlistIdOf(cfg)),
                             shuffleUrl(Bedroom, shuffleOf(cfg)),
                             repeatUrl(Bedroom, repeatOf(cfg))>>

\* C5: a request setSwitch(name, false) issues one external call, the pause of the
\* switch's coordinator, and nothing else, in every state of its handling.
C5_DeactivateOnlyPauses ==
    \A r \in Requests :
        ~r.value =>
           r.trace = <<Get(apiUrl \o <<"/">>
                           \o encodeURIComponent(coordinator(playlists[r.cfg]))
                           \o <<"/pause">>)>>

\* Morning is on and active, and its deactivation has issued the pause of Bedroom
C5_Witness ==
    /\ Len(reqs) = 1 /\ reqs[1].cfg = 1 /\ ~reqs[1].value
    /\ isOn[1] /\ activePlaylist = "Morning"
    /\ Gets(reqs[1].trace) = << <<"http://127.0.0.1:5005", "/", "Bedroom", "/pause">> >>

\* C6: the external call that failed is the last call of its request: the request is
\* over, nothing was issued after the failed call, and handleSwitchSet has thrown.
C6_FailFast ==
    \A r \in Requests :
        r.failedAt > 0 =>
           /\ r.failedAt = Len(r.trace)
           /\ r.trace[r.failedAt].op = "get"
           /\ ~InFlight(r)
           /\ r.hs = "rejected"

\* Morning's activation failed in the join of its second member room: only the two
\* joins were issued
C6_Witness ==
    /\ last # <<>> /\ last[1].cfg = 1 /\ last[1].value
    /\ last[1].failedAt > 0 /\ last[1].hs = "rejected"
    /\ Gets(last[1].trace) =
           << <<"http://127.0.0.1:5005", "/", "Kitchen", "/join/", "Bedroom">>,
              <<"http://127.0.0.1:5005", "/", "Office", "/join/", "Bedroom">> >>

\* C7: activePlaylist becomes the name of a switch only in the step in which the
\* last playback call of that switch's activation succeeds.
C7_ActiveOnlyOnSuccess ==
    [][\A i \in DOMAIN playlists :
          (activePlaylist' = playlists[i].name /\ activePlaylist # playlists[i].name) =>
             /\ Len(reqs') < Len(reqs)
             /\ last'[1].cfg = i /\ last'[1].value /\ last'[1].hs = "resolved"]_vars

\* C8: a request for a playlist entry that is not registered fails without any
\* external call.
C8_UnknownSwitchRejected ==
    \A r \in Requests :
        r.cfg \notin registered => (Gets(r.trace) = <<>> /\ r.hs = "rejected")

\* C9: a set-request in which an external call failed completes with an error for
\* the host.
C9_ErrorReachesHost ==
    \A r \in Requests : (r.entry = "onSet" /\ r.failedAt > 0) => r.set = "error"

\* C10: set-requests are serialized: at most one is being handled at any time.
C10_Serialized == Len(reqs) <= 1

\* C11: at most one switch is on in every reachable state, also when the handling of
\* set-requests for different switches overlaps.
C11_AtMostOneOnAlways == Cardinality(SwitchesOn) <= 1

\* a request completes in this step; Completed is its record before the step
Completes == Len(reqs') < Len(reqs)
Completed == reqs[CHOOSE n \in DOMAIN reqs : reqs' = without(reqs, n)]

\* C12: the step in which an activation fails changes the value of no other switch
\* and calls updateValue on no switch: nothing that the activation switched off is
\* switched on again.
C12_NoRollback ==
    [][(Completes /\ Completed.value /\ last'[1].failedAt > 0) =>
          /\ \A j \in DOMAIN isOn : j # Completed.cfg => isOn'[j] = isOn[j]
          /\ last'[1].trace = Completed.trace]_vars

\* Party's activation, which called updateValue(false) on Morning, has failed:
\* every other switch is off
C12_Witness ==
    /\ last # <<>> /\ reqs = <<>>
    /\ last[1].cfg = 2 /\ last[1].value /\ last[1].failedAt > 0
    /\ \E p \in DOMAIN last[1].trace : last[1].trace[p] = UpdateValue(1)
    /\ ~isOn[1] /\ ~isOn[3] /\ ~isOn[4]

\* C13: with set-requests handled one after another, a deactivation whose pause
\* succeeded leaves activePlaylist = null, one whose pause failed leaves activePlaylist
\* as it was, and a successful activation leaves activePlaylist = the switch's name.
C13_ActiveAfterCompletion ==
    [][Completes =>
          /\ (~Completed.value /\ last'[1].hs = "resolved") => activePlaylist' = null
          /\ (~Completed.value /\ last'[1].failedAt > 0) => activePlaylist' = activePlaylist
          /\ (Completed.value /\ last'[1].hs = "resolved") =>
                activePlaylist' = playlists[Completed.cfg].name]_vars

\* Morning's deactivation has completed with success: no playlist is active
C13_Witness ==
    /\ last # <<>> /\ reqs = <<>>
    /\ last[1].cfg = 1 /\ ~last[1].value /\ last[1].hs = "resolved"
    /\ activePlaylist = null /\ ~isOn[1]

\* the commands of the REST calls, in the order in which an activation issues them
Commands == <<"/zones", "/join/", "/spotify/now/", "/shuffle/", "/repeat/", "/pause">>
commandOf(url) == CHOOSE c \in DOMAIN Commands : \E p \in DOMAIN url : url[p] = Commands[c]
RECURSIVE commandsOfTrace(_)
commandsOfTrace(tr) ==
    IF tr = <<>> THEN <<>>
    ELSE (IF Head(tr).op = "get" THEN <<commandOf(Head(tr).url)>> ELSE <<>>)
         \o commandsOfTrace(Tail(tr))
CommandsOf(r) == commandsOfTrace(r.trace)
Count(cs, c) == Cardinality({p \in DOMAIN cs : cs[p] = c})

\* the calls of activation r were issued in the order zones, joins, source, shuffle,
\* repeat, each after the one before it had succeeded
InOrder(r) ==
    LET cs == CommandsOf(r)
    IN /\ r.failedAt \in {0, Len(r.trace)}
       /\ \A p \in DOMAIN cs : cs[p] = 1 <=> (p = 1 /\ ~explicitZones(playlists[r.cfg]))
       /\ \A p, q \in DOMAIN cs : p < q => cs[p] <= cs[q] /\ (cs[p] = cs[q] => cs[p] = 2)
       /\ \A q \in DOMAIN cs : cs[q] = 3 => Count(cs, 2) = Len(r.members)
       /\ \A q \in DOMAIN cs : cs[q] \in {4, 5} => q > 1 /\ cs[q - 1] = cs[q] - 1
       /\ \A q \in DOMAIN cs : cs[q] # 6

\* C14: an activation has one call outstanding at a time: the delivery of the
\* set-request issues exactly one call, every later step of the request issues at most
\* one more, no call follows one that failed, and the calls come in the order zones
\* query (ALL only), joins, source (after as many joins as there are members),
\* shuffle, repeat; for explicit and for ALL zone specs. (The order is checked on
\* every request record that the step creates or changes.)
C14_Sequential ==
    [][/\ (Delivers /\ Delivered.value) => Len(Gets(Delivered.trace)) = 1
       /\ \A n \in DOMAIN reqs, m \in DOMAIN reqs' :
             (reqs[n].value /\ reqs'[m].cfg = reqs[n].cfg) =>
                 Len(Gets(reqs'[m].trace)) <= Len(Gets(reqs[n].trace)) + 1
       /\ \A m \in DOMAIN reqs' :
             (reqs'[m].value /\ \A n \in DOMAIN reqs : reqs[n] # reqs'[m]) => InOrder(reqs'[m])
       /\ \A m \in DOMAIN last' : (last'[m].value /\ last' # last) => InOrder(last'[m])]_vars

\* Party (Zones 'ALL') has been activated with success through the zones query, two
\* joins, source, shuffle and repeat
C14_Witness ==
    /\ last # <<>>
    /\ last[1].cfg = 2 /\ last[1].value /\ last[1].hs = "resolved"
    /\ CommandsOf(last[1]) = <<1, 2, 2, 3, 4, 5>>

\* C15: no set-request stays pending forever: whatever the server does, the awaited
\* call of every request in flight can still settle (be answered, or be failed by a
\* timeout), so that the request can complete.
C15_EveryCallSettles ==
    \A n \in DOMAIN reqs :
        ENABLED (callFails(n) \/ \E data \in ZoneReplies : callSucceeds(n, data))

\* C16: no call of a request is issued twice: the zones query, source, shuffle, repeat
\* and pause occur at most once, the k-th join is the join of the k-th member (so there
\* are at most as many joins as members), and no call follows the call that failed.
C16_NoRetry ==
    \A r \in Requests :
        LET cs == CommandsOf(r)
            joins == SelectSeq(Gets(r.trace), LAMBDA u : commandOf(u) = 2)
        IN /\ \A c \in {1, 3, 4, 5, 6} : Count(cs, c) <= 1
           /\ Len(joins) <= Len(r.members)
           /\ \A k \in DOMAIN joins :
                 joins[k] = joinUrl(r.members[k], coordinator(playlists[r.cfg]))
           /\ r.failedAt > 0 => r.failedAt = Len(r.trace)

\* Morning's activation has failed in the source call, after its three joins (two of
\* them of Kitchen, which is listed twice)
C16_Witness ==
    /\ last # <<>>
    /\ last[1].cfg = 1 /\ last[1].value /\ last[1].failedAt > 0
    /\ CommandsOf(last[1]) = <<2, 2, 2, 3>>

\* the coordinator as specified: the first room of an explicit list, the fallback room
\* Bedroom when Zones is 'ALL', empty or unset
firstRoomOrFallback(cfg) == IF explicitZones(cfg) THEN ZoneList(cfg)[1] ELSE Bedroom

\* url is the zones query, or a join, playback or pause command for coordinator c
AddressedTo(url, r, c) ==
    LET cfg == playlists[r.cfg]
    IN \/ url \in {zonesUrl, sourceUrl(c, playlistIdOf(cfg)), shuffleUrl(c, shuffleOf(cfg)),
                   repeatUrl(c, repeatOf(cfg)), pauseUrl(c)}
       \/ \E k \in DOMAIN r.members : url = joinUrl(r.members[k], c)

\* C17: every join, playback and pause call of a request, activation or deactivation,
\* is addressed to the one coordinator of its switch: the first room of zones, or
\* Bedroom when there is no list of zones.
C17_OneCoordinator ==
    \A r \in Requests :
        \A p \in DOMAIN Gets(r.trace) :
            AddressedTo(Gets(r.trace)[p], r, firstRoomOrFallback(playlists[r.cfg]))

\* the switches on which the delivered request has called updateValue(false)
Notified == {j \in DOMAIN playlists :
                \E p \in DOMAIN Delivered.trace : Delivered.trace[p] = UpdateValue(j)}

\* C18: setSwitch(name, true) calls updateValue(false) on exactly the other registered
\* switches that are on at the time of the call.
C18_NotifiesThoseOn ==
    [][(Delivers /\ Delivered.value) =>
          Notified = {j \in registered \ {Delivered.cfg} : isOn[j]}]_vars

\* C18, amended: setSwitch(name, true) calls updateValue(false) once on every other
\* registered switch, whether it is on or off, and not on the target; the switches
\* whose value changes in that step are exactly the others that were on.
C18_NotifiesEveryOther ==
    [][(Delivers /\ Delivered.value) =>
          /\ Notified = registered \ {Delivered.cfg}
          /\ Cardinality({p \in DOMAIN Delivered.trace :
                             Delivered.trace[p].op = "updateValue"}) = Cardinality(Notified)
          /\ {j \in DOMAIN isOn : isOn'[j] # isOn[j]} =
                {j \in registered \ {Delivered.cfg} : isOn[j]}]_vars

\* Party's activation completed with success, then Evening's activation was delivered:
\* updateValue(false) was called on Party, which was on, and on Morning and Garden,
\* which were off
C18_Witness ==
    /\ last # <<>> /\ Len(reqs) = 1
    /\ last[1].cfg = 2 /\ last[1].value /\ last[1].hs = "resolved"
    /\ reqs[1].cfg = 3 /\ reqs[1].value /\ reqs[1].pc = "zones"
    /\ \A j \in {1, 2, 4} : \E p \in DOMAIN reqs[1].trace : reqs[1].trace[p] = UpdateValue(j)
    /\ SwitchesOn = {}

\* C19: a set-request for a switch whose resolved coordinator name is empty issues no
\* external call and fails.
C19_BlankCoordinatorRejected ==
    \A r \in Requests :
        coordinator(playlists[r.cfg]) = <<>> =>
            Gets(r.trace) = <<>> /\ ~InFlight(r) /\ r.hs = "rejected"

\* C20: with set-requests handled one after another, after every set-request that
\* completed with success activePlaylist is the name of a switch exactly when that
\* switch is on, and is null exactly when no switch is on.
C20_ActiveAgreesWithOn ==
    (reqs = <<>> /\ last # <<>> /\ last[1].hs = "resolved") =>
        /\ \A n \in registered : (activePlaylist = playlists[n].name) <=> isOn[n]
        /\ (activePlaylist = null) <=> (SwitchesOn = {})

\* C21: a deactivation changes the value of no other switch and calls updateValue on
\* no switch: neither the step that delivers it nor the step in which it completes,
\* with the pause call answered or failed, changes isOn of another switch, and its
\* trace holds the pause call only.
C21_DeactivateFrame ==
    [][/\ (Delivers /\ ~Delivered.value) =>
             /\ isOn' = isOn
             /\ \A p \in DOMAIN Delivered.trace : Delivered.trace[p].op = "get"
       /\ (Completes /\ ~Completed.value) =>
             /\ \A j \in DOMAIN isOn : j # Completed.cfg => isOn'[j] = isOn[j]
             /\ \A p \in DOMAIN last'[1].trace : last'[1].trace[p].op = "get"]_vars

\* Morning is on and the deactivation of Party has failed in its pause call: Morning
\* is still on
C21_Witness ==
    /\ last # <<>> /\ reqs = <<>>
    /\ last[1].cfg = 2 /\ ~last[1].value /\ last[1].failedAt > 0
    /\ isOn[1] /\ activePlaylist = "Morning"

\* C22: when the activations of two switches with the same coordinator room overlapped
\* and both have completed with success (the two latest completions, the earlier one
\* while the later one was in flight) and nothing is in flight, the coordinator's
\* source, shuffle mode and repeat mode are those of the switch named by activePlaylist.
C22_SharedCoordinatorConsistent ==
    (/\ reqs = <<>> /\ Len(session.finished) = 2
     /\ session.finished[1].value /\ session.finished[2].value
     /\ session.finished[1].cfg \in session.finished[2].during
     /\ coordinator(playlists[session.finished[1].cfg]) =
           coordinator(playlists[session.finished[2].cfg]))
    => \E a \in {session.finished[1].cfg, session.finished[2].cfg} :
          /\ playlists[a].name = activePlaylist
          /\ session.player[coordinator(playlists[a])] =
                [source |-> playlistIdOf(playlists[a]), shuffle |-> shuffleOf(playlists[a]),
                 repeat |-> repeatOf(playlists[a])]

\* C23: once the host has emitted didFinishLaunching the accessories are set up,
\* whatever the state of the server setup at that moment.  setupAccessories runs
\* only inside the listener of that event, which the host emits once, so the
\* accessories are set up in the step of the event or never.
C23_AccessoriesAfterLaunch == launched => accessories = setupAccessories

====
